---- MODULE Spec2Model ----
(***************************************************************************)
(* A model of the two pipelines of the repository:                         *)
(*   - the translate CLI   (backend/src/csv-translate.ts)                   *)
(*   - the issue fetcher   (src/issues.ts, driven by its example program)   *)
(* and of their CSV serializers (toCsv, rowsToCsv, csvEscape).              *)
(*                                                                         *)
(* Text is modelled as a sequence of one-character strings, so that         *)
(* escaping, splitting and trimming are computed character by character.    *)
(* A column name is a single opaque symbol (it holds no special character). *)
(***************************************************************************)
EXTENDS Integers, Sequences, FiniteSets, TLC

\* ---------------------------------------------------------------- bounds
\* Most rows an input CSV holds.
MaxRows == 3
\* Largest value given to --concurrency.
MaxConc == 2
\* Most rows handed to a serializer in the serializer specification.
MaxCsvRows == 1

\* ------------------------------------------------------------ text helpers
\* JavaScript's undefined (a missing key, an absent option).
Undefined == <<"<undefined>">>
\* JavaScript's null (an issue without a body).
Null == <<"<null>">>
\* A file that does not exist.
NoFile == <<"<nofile>">>
\* No value yet (no response received or returned, no call made): a value
\* that may be absent is held as <<v>>.
None == <<>>
Some(v) == <<v>>

Quote == "\""
Comma == ","
LF == "\n"
CR == "\r"
Space == " "
BOM == "<FEFF>"

\* The characters /\s/ matches, among those the model uses.
IsSpace(c) == c \in {Space, LF, CR}

RECURSIVE JoinRange(_, _, _, _)
\* ss[lo] sep ss[lo+1] sep ... ss[hi], computed by halves.
JoinRange(ss, sep, lo, hi) ==
  IF lo > hi THEN <<>>
  ELSE IF lo = hi THEN ss[lo]
  ELSE LET mid == (lo + hi) \div 2
       IN JoinRange(ss, sep, lo, mid) \o sep \o JoinRange(ss, sep, mid + 1, hi)

\* Array.prototype.join: the texts of ss with sep between them.
Join(ss, sep) == JoinRange(ss, sep, 1, Len(ss))

\* The concatenation of a sequence of sequences.
Concat(ss) == JoinRange(ss, <<>>, 1, Len(ss))

\* Array.prototype.map over a sequence.
Map(ss, F(_)) == [i \in 1..Len(ss) |-> F(ss[i])]

RECURSIVE ReplaceQuotes(_)
\* s.replaceAll('"', '""')
ReplaceQuotes(s) ==
  IF s = <<>> THEN <<>>
  ELSE (IF Head(s) = Quote THEN <<Quote, Quote>> ELSE <<Head(s)>>) \o ReplaceQuotes(Tail(s))

\* /[",\n\r]|\s$|^\s/.test(s)
NeedsQuote(s) ==
  \/ \E i \in 1..Len(s) : s[i] \in {Quote, Comma, LF, CR}
  \/ Len(s) > 0 /\ (IsSpace(s[1]) \/ IsSpace(s[Len(s)]))

\* csvEscape of both pipelines (the two copies test the same pattern).
csvEscape(s) ==
  IF NeedsQuote(s) THEN <<Quote>> \o ReplaceQuotes(s) \o <<Quote>> ELSE ReplaceQuotes(s)

RECURSIVE TrimLeft(_)
TrimLeft(s) == IF s # <<>> /\ IsSpace(Head(s)) THEN TrimLeft(Tail(s)) ELSE s

RECURSIVE TrimRight(_)
TrimRight(s) ==
  IF s # <<>> /\ IsSpace(s[Len(s)]) THEN TrimRight(SubSeq(s, 1, Len(s) - 1)) ELSE s

\* String.prototype.trim
Trim(s) == TrimRight(TrimLeft(s))

RECURSIVE RunOfLF(_)
\* The length of the run of line feeds s starts with.
RunOfLF(s) == IF s # <<>> /\ Head(s) = LF THEN 1 + RunOfLF(Tail(s)) ELSE 0

RECURSIVE SplitFrom(_, _)
\* txt.split(/\n{2,}/), with cur the piece being collected.
SplitFrom(s, cur) ==
  IF s = <<>> THEN <<cur>>
  ELSE LET n == RunOfLF(s) IN
       IF n >= 2 THEN <<cur>> \o SplitFrom(SubSeq(s, n + 1, Len(s)), <<>>)
       ELSE SplitFrom(Tail(s), Append(cur, Head(s)))

SplitBlankLines(txt) == SplitFrom(txt, <<>>)

\* ------------------------------------------------- rows (JavaScript objects)
\* A row is an ordered object: a sequence of <<key, value>> pairs without
\* repeated keys, in insertion order (Object.keys order).
Keys(r) == [i \in 1..Len(r) |-> r[i][1]]
KeySet(r) == {r[i][1] : i \in 1..Len(r)}

\* r[k]
Get(r, k) ==
  IF k \in KeySet(r) THEN r[CHOOSE i \in 1..Len(r) : r[i][1] = k][2] ELSE Undefined

\* { ...r, [k]: v }
Put(r, k, v) ==
  IF k \in KeySet(r)
  THEN [i \in 1..Len(r) |-> IF r[i][1] = k THEN <<k, v>> ELSE r[i]]
  ELSE Append(r, <<k, v>>)

\* a ?? b
Coalesce(a, b) == IF a \notin {Undefined, Null} THEN a ELSE b

\* The text of a column name.
NameText(h) == <<h>>

\* ------------------------------------------------------------- serializers
\* One data line of toCsv: headers.map(h => csvEscape(String(r[h] ?? ""))).join(",")
toCsvLine(r, headers) ==
  Join([k \in 1..Len(headers) |-> csvEscape(Coalesce(Get(r, headers[k]), <<>>))], <<Comma>>)

\* toCsv of the translate pipeline; opt = [includeBom, newline].
toCsv(rs, headers, opt) ==
  LET head == Join([k \in 1..Len(headers) |-> csvEscape(NameText(headers[k]))], <<Comma>>)
      body == Join([i \in 1..Len(rs) |-> toCsvLine(rs[i], headers)], opt.newline)
      csv  == Join(<<head, body>>, opt.newline)
  IN (IF opt.includeBom THEN <<BOM>> ELSE <<>>) \o csv

\* ------------------------------------------------------- translate pipeline
VARIABLES
  env,         \* argv and environment: help, inout, apiKey, inputExists, opt
  concurrency, \* parseInt of --concurrency
  pc,          \* where the CLI is: startup, main, read, forEach, write, exited
  exitCode,    \* <<code>> once process.exit(code) is called, NotExited before
  uncaught,    \* main() rejected: the error main().catch received
  rows,        \* the rows csvParse returned
  headers,     \* the output header derived from the first row
  next,        \* the index of the next row Effect.forEach hands to a worker
  status,      \* per row: todo, inflight, done, failed, interrupted
  translated,  \* per row: the merged row the callback produced
  requests,    \* per row: completion requests issued
  done,        \* the progress counter
  failedRows,  \* rows whose completion call failed
  settleLog,   \* row indices in the order the rows completed
  outFile      \* the text of the output file, or NoFile

tvars == <<env, concurrency, pc, exitCode, uncaught, rows, headers, next, status,
           translated, requests, done, failedRows, settleLog, outFile>>

VARIABLES
  fpc,         \* where writeIssuesCsvFile is: idle, fetching, writing, written,
               \* failed (an Error), defect (an exception thrown in a callback)
  wantedN,     \* args.wantedN
  avail,       \* the search API: how many issues match the query
  foptions,    \* the options given to writeIssuesCsvFile
  issued,      \* per page: how many requests were issued for it
  outstanding, \* pages whose request is issued and not answered
  pageResult,  \* per page: Some(the SearchIssuesResp received), or None
  failedPages, \* pages whose request failed
  response,    \* Some(the IssueResponse getIssues returned), or None
  issuesFile   \* the text of the issues file, or NoFile

fvars == <<fpc, wantedN, avail, foptions, issued, outstanding, pageResult, failedPages,
           response, issuesFile>>

VARIABLES
  csvCall,     \* Some(the serializer call made: its name and arguments), or None
  csvText      \* Some(the text the call returned), or None

cvars == <<csvCall, csvText>>

vars == <<tvars, fvars, cvars>>

\* exitCode before process.exit is called.
NotExited == <<>>

CRLFText == <<CR, LF>>
LFText == <<LF>>

\* The --bom / --newline combinations tried.
OutputOptions ==
  { [includeBom |-> FALSE, newline |-> CRLFText], [includeBom |-> TRUE, newline |-> LFText] }

\* The text a cell of a column holds when it is not empty.
CellText(col) ==
  CASE col = "title" -> <<"T">>
    [] col = "summary" -> <<"S", Space, "s">>
    [] col = "body" -> <<"B", Comma, "b">>
    [] col = "first_comment" -> <<"F", Quote>>
    [] OTHER -> <<"x">>

TextColumns == {"title", "summary", "body", "first_comment"}

\* The header lines of the input files tried.
ColumnSets ==
  { <<"soupId", "projectId", "title", "body">>,
    <<"title", "summary">>,
    <<"summary", "first_comment">> }

\* Every row over the columns cols: a text column is empty or holds its text.
RowsOver(cols) ==
  LET cells == {<<>>} \cup {CellText(c) : c \in {cols[i] : i \in 1..Len(cols)}}
      ok(v) == \A i \in 1..Len(cols) :
                 \/ v[i] = CellText(cols[i])
                 \/ cols[i] \in TextColumns /\ v[i] = <<>>
  IN { [i \in 1..Len(cols) |-> <<cols[i], v[i]>>] : v \in {w \in [1..Len(cols) -> cells] : ok(w)} }

\* What csvParse(text, {columns: true}) can return: rows sharing one header line.
Tables ==
  UNION { UNION { [1..n -> RowsOver(cols)] : n \in 0..MaxRows } : cols \in ColumnSets }

\* const title = r.title ?? r.summary ?? ""
RowTitle(r) == Coalesce(Coalesce(Get(r, "title"), Get(r, "summary")), <<>>)
\* const body = r.body ?? r.first_comment ?? ""
RowBody(r) == Coalesce(Coalesce(Get(r, "body"), Get(r, "first_comment")), <<>>)

\* A shortcut taken when either text is empty.
SkipsCallEither(title, body) == title = <<>> \/ body = <<>>

\* if (!title && !body): the row is answered without a completion call.
SkipsCall(title, body) == title = <<>> /\ body = <<>>

\* { ...r, titleJa, bodyJa }
Merge(r, ja) == Put(Put(r, "titleJa", ja.titleJa), "bodyJa", ja.bodyJa)

\* The completion API, an external collaborator: the text it answers a request
\* with, here the marked title, and after a blank line the marked body if any.
CompletionText(title, body) ==
  (<<"j">> \o title) \o (IF body = <<>> THEN <<>> ELSE <<LF, LF, "j">> \o body \o <<LF>>)

\* translateOne's parsing of the completion text.
ParseCompletion(txt) ==
  LET parts == SplitBlankLines(txt)
  IN [titleJa |-> Trim(Head(parts)), bodyJa |-> Trim(Join(Tail(parts), <<LF, LF>>))]

\* The header derivation from the first row.
DeriveHeaders(first) ==
  LET known == <<"soupId", "projectId", "title", "body">>
      inFirst(k) == k \in KeySet(first)
      notKnown(k) == k \notin {known[i] : i \in 1..Len(known)}
  IN SelectSeq(known, inFirst) \o SelectSeq(Keys(first), notKnown) \o <<"titleJa", "bodyJa">>

\* The number of rows Effect.forEach runs at once under { concurrency }: a value
\* above 1 bounds the workers, any other number runs the rows one at a time.
Workers == IF concurrency > 1 THEN concurrency ELSE 1

InFlight == {i \in 1..Len(rows) : status[i] = "inflight"}

\* Requests issued whose answer has not arrived (an interrupted row's request
\* stays on the wire until the process exits).
Outstanding == {i \in 1..Len(rows) : status[i] \in {"inflight", "interrupted"}}

\* A gate that admits one row too many.
CanStartOffByOne == Cardinality(InFlight) <= Workers

\* The admission gate of Effect.forEach: a worker is free to take a row.
CanStart == Cardinality(InFlight) < Workers

\* The results collected in the order the rows completed.
ForEachResultInCompletionOrder == [k \in 1..Len(settleLog) |-> translated[settleLog[k]]]

\* The array Effect.forEach succeeds with: the results at their rows' indices.
ForEachResult == [i \in 1..Len(rows) |-> translated[i]]

AllDone(st) == \A i \in 1..Len(rows) : st[i] = "done"

\* process.exit(code)
Exit(code) == pc' = "exited" /\ exitCode' = <<code>>

TranslateInit ==
  /\ env \in [help : BOOLEAN, inout : BOOLEAN, apiKey : BOOLEAN, inputExists : BOOLEAN,
              opt : OutputOptions]
  /\ concurrency \in 0..MaxConc
  /\ pc = "startup"
  /\ exitCode = NotExited
  /\ uncaught = FALSE
  /\ rows = <<>>
  /\ headers = <<>>
  /\ next = 1
  /\ status = <<>>
  /\ translated = <<>>
  /\ requests = <<>>
  /\ done = 0
  /\ failedRows = {}
  /\ settleLog = <<>>
  /\ outFile = NoFile

\* Top-level statements that do not check the API key.
StartupWithoutKeyCheck ==
  /\ pc = "startup"
  /\ IF env.help THEN Exit(0)
     ELSE IF ~env.inout THEN Exit(1)
     ELSE pc' = "main" /\ UNCHANGED exitCode
  /\ UNCHANGED <<env, concurrency, uncaught, rows, headers, next, status, translated,
                 requests, done, failedRows, settleLog, outFile>>
  /\ UNCHANGED <<fvars, cvars>>

\* The module's top-level statements: --help, the required flags, the API key.
Startup ==
  /\ pc = "startup"
  /\ IF env.help THEN Exit(0)
     ELSE IF ~env.inout THEN Exit(1)
     ELSE IF ~env.apiKey THEN Exit(2)
     ELSE pc' = "main" /\ UNCHANGED exitCode
  /\ UNCHANGED <<env, concurrency, uncaught, rows, headers, next, status, translated,
                 requests, done, failedRows, settleLog, outFile>>
  /\ UNCHANGED <<fvars, cvars>>

\* main(): the fs.stat of the input path.
StatInput ==
  /\ pc = "main"
  /\ IF env.inputExists THEN pc' = "read" /\ UNCHANGED exitCode ELSE Exit(3)
  /\ UNCHANGED <<env, concurrency, uncaught, rows, headers, next, status, translated,
                 requests, done, failedRows, settleLog, outFile>>
  /\ UNCHANGED <<fvars, cvars>>

\* readFileEff fails, or csvParse throws: main() rejects and main().catch exits.
ReadFails ==
  /\ pc = "read"
  /\ uncaught' = TRUE
  /\ Exit(1)
  /\ UNCHANGED <<env, concurrency, rows, headers, next, status, translated,
                 requests, done, failedRows, settleLog, outFile>>
  /\ UNCHANGED <<fvars, cvars>>

\* readFileEff and csvParse succeed with the rows of some table.
ReadInput ==
  /\ pc = "read"
  /\ \E table \in Tables :
       /\ rows' = table
       /\ headers' = IF table = <<>> THEN <<>> ELSE DeriveHeaders(table[1])
       /\ status' = [i \in 1..Len(table) |-> "todo"]
       /\ translated' = [i \in 1..Len(table) |-> Undefined]
       /\ requests' = [i \in 1..Len(table) |-> 0]
       /\ pc' = IF table = <<>> THEN "write" ELSE "forEach"
  /\ UNCHANGED <<env, concurrency, exitCode, uncaught, next, done, failedRows,
                 settleLog, outFile>>
  /\ UNCHANGED <<fvars, cvars>>

\* A worker of Effect.forEach takes the next row and runs the callback on it:
\* an empty row is answered at once, any other issues its completion request.
StartRow ==
  /\ pc = "forEach"
  /\ next <= Len(rows)
  /\ CanStart
  /\ LET i == next
         r == rows[i]
     IN IF SkipsCall(RowTitle(r), RowBody(r))
        THEN /\ translated' = [translated EXCEPT ![i] = Merge(r, [titleJa |-> <<>>, bodyJa |-> <<>>])]
             /\ status' = [status EXCEPT ![i] = "done"]
             /\ done' = done + 1
             /\ settleLog' = Append(settleLog, i)
             /\ pc' = IF AllDone(status') THEN "write" ELSE "forEach"
             /\ UNCHANGED requests
        ELSE /\ requests' = [requests EXCEPT ![i] = @ + 1]
             /\ status' = [status EXCEPT ![i] = "inflight"]
             /\ UNCHANGED <<translated, done, settleLog, pc>>
  /\ next' = next + 1
  /\ UNCHANGED <<env, concurrency, exitCode, uncaught, rows, headers, failedRows, outFile>>
  /\ UNCHANGED <<fvars, cvars>>

\* The completion request of row i is answered: translateOne succeeds.
CompleteRow(i) ==
  /\ pc = "forEach"
  /\ status[i] = "inflight"
  /\ LET r == rows[i]
         ja == ParseCompletion(CompletionText(RowTitle(r), RowBody(r)))
     IN translated' = [translated EXCEPT ![i] = Merge(r, ja)]
  /\ status' = [status EXCEPT ![i] = "done"]
  /\ done' = done + 1
  /\ settleLog' = Append(settleLog, i)
  /\ pc' = IF AllDone(status') THEN "write" ELSE "forEach"
  /\ UNCHANGED <<env, concurrency, exitCode, uncaught, rows, headers, next, requests,
                 failedRows, outFile>>
  /\ UNCHANGED <<fvars, cvars>>

\* A row-level fallback: the failed row gets empty translations and the batch
\* goes on.
FailRowFallback(i) ==
  /\ pc = "forEach"
  /\ status[i] = "inflight"
  /\ failedRows' = failedRows \cup {i}
  /\ translated' = [translated EXCEPT ![i] = Merge(rows[i], [titleJa |-> <<>>, bodyJa |-> <<>>])]
  /\ status' = [status EXCEPT ![i] = "done"]
  /\ done' = done + 1
  /\ settleLog' = Append(settleLog, i)
  /\ pc' = IF AllDone(status') THEN "write" ELSE "forEach"
  /\ UNCHANGED <<env, concurrency, exitCode, uncaught, rows, headers, next, requests, outFile>>
  /\ UNCHANGED <<fvars, cvars>>

\* The completion request of row i fails: Effect.forEach fails, the rows in
\* flight are interrupted, main() rejects and main().catch exits.
FailRow(i) ==
  /\ pc = "forEach"
  /\ status[i] = "inflight"
  /\ failedRows' = failedRows \cup {i}
  /\ status' = [j \in 1..Len(rows) |->
                  IF j = i THEN "failed"
                  ELSE IF status[j] = "inflight" THEN "interrupted" ELSE status[j]]
  /\ uncaught' = TRUE
  /\ Exit(1)
  /\ UNCHANGED <<env, concurrency, rows, headers, next, translated, requests, done,
                 settleLog, outFile>>
  /\ UNCHANGED <<fvars, cvars>>

\* writeFileEff(outAbs, toCsv(rows, headers, ...)) succeeds: the CLI ends with 0.
WriteOutput ==
  /\ pc = "write"
  /\ outFile' = toCsv(ForEachResult, headers, env.opt)
  /\ Exit(0)
  /\ UNCHANGED <<env, concurrency, uncaught, rows, headers, next, status, translated,
                 requests, done, failedRows, settleLog>>
  /\ UNCHANGED <<fvars, cvars>>

\* writeFileEff fails: main() rejects and main().catch exits.
WriteFails ==
  /\ pc = "write"
  /\ uncaught' = TRUE
  /\ Exit(1)
  /\ UNCHANGED <<env, concurrency, rows, headers, next, status, translated,
                 requests, done, failedRows, settleLog, outFile>>
  /\ UNCHANGED <<fvars, cvars>>

NextTranslate ==
  \/ Startup
  \/ StatInput
  \/ ReadFails
  \/ ReadInput
  \/ StartRow
  \/ \E i \in 1..Len(rows) : CompleteRow(i)
  \/ \E i \in 1..Len(rows) : FailRow(i)
  \/ WriteOutput
  \/ WriteFails

\* The translate CLI is not run.
TranslateOff ==
  /\ env = [help |-> FALSE, inout |-> TRUE, apiKey |-> TRUE, inputExists |-> TRUE,
            opt |-> [includeBom |-> FALSE, newline |-> CRLFText]]
  /\ concurrency = 1
  /\ pc = "off"
  /\ exitCode = NotExited
  /\ uncaught = FALSE
  /\ rows = <<>>
  /\ headers = <<>>
  /\ next = 1
  /\ status = <<>>
  /\ translated = <<>>
  /\ requests = <<>>
  /\ done = 0
  /\ failedRows = {}
  /\ settleLog = <<>>
  /\ outFile = NoFile

\* ----------------------------------------------------------- fetch pipeline
maxPerPage == 100
\* The search API's ceiling on results, the 1000 of Math.min(wantedN, 1000).
SearchCap == 1000

Min(a, b) == IF a < b THEN a ELSE b

\* Math.ceil(Math.min(wantedN, 1000) / maxPerPage), for an integer wantedN >= 0.
Pages(w) == (Min(w, SearchCap) + (maxPerPage - 1)) \div maxPerPage

\* The values of wantedN tried.
WantedNs == {0, 1, 100, 101, 250, 1000, 1500}
\* How many issues the search API holds for the query, in the cases tried.
Avails == {0, 1, 150, 1200}

\* The options of writeIssuesCsvFile tried (the example program's, and one
\* with every option given).
FetchOptions ==
  { [includeBom |-> TRUE, newline |-> Undefined, headers |-> Undefined],
    [includeBom |-> FALSE, newline |-> LFText, headers |-> <<"title", "body">>] }

\* The search API, an external collaborator: its k-th issue for the query.
ApiItem(k) ==
  [title |-> <<"#", ToString(k)>>,
   body  |-> IF k % 2 = 0 THEN Null ELSE <<"b", Comma, ToString(k)>>]

\* The search API's answer to per_page=100&page=p when a issues match.
ApiPage(p, a) ==
  LET first == (p - 1) * maxPerPage + 1
      last  == Min(p * maxPerPage, a)
  IN [total_count |-> a,
      incomplete_results |-> FALSE,
      items |-> [j \in 1..(IF last >= first THEN last - first + 1 ELSE 0) |-> ApiItem(first + j - 1)]]

SoupId == <<"S", "1">>
ProjectId == <<"P", "1">>

\* The projection of an API item onto an IssueRow (body: it.body ?? "").
ToIssueRow(it) ==
  << <<"soupId", SoupId>>, <<"projectId", ProjectId>>, <<"title", it.title>>,
     <<"body", Coalesce(it.body, <<>>)>> >>

\* results.flatMap((r) => r.items), results taken in page-number order.
FlatItems(results) == Concat([p \in 1..Len(results) |-> results[p].items])

\* Array.prototype.slice(0, n), for an integer n >= 0.
Slice0(s, n) == SubSeq(s, 1, Min(n, Len(s)))

\* The callback of Effect.map in getIssues, applied to the pages' responses.
Aggregated(results, w) ==
  [count |-> results[1].total_count,
   query |-> "repo:owner/repo is:issue state:open in:title,body",
   items |-> Map(Slice0(FlatItems(results), w), ToIssueRow)]

\* One data line of rowsToCsv.
rowsToCsvLine(r) ==
  Join(Map(<<Get(r, "soupId"), Get(r, "projectId"), Get(r, "title"), Get(r, "body")>>,
           csvEscape), <<Comma>>)

\* rowsToCsv of the fetch pipeline; an option not given is Undefined.
rowsToCsv(rs, options) ==
  LET newline == Coalesce(options.newline, CRLFText)
      hdrs    == Coalesce(options.headers, <<"soupId", "projectId", "title", "body">>)
      head    == Join([k \in 1..Len(hdrs) |-> csvEscape(NameText(hdrs[k]))], <<Comma>>)
      body    == Join(Map(rs, rowsToCsvLine), newline)
      csv     == Join(<<head, body>>, newline)
  IN (IF options.includeBom THEN <<BOM>> ELSE <<>>) \o csv

\* Effect.all(pageEffects), no concurrency given: the effects run one after the
\* other, so page p is requested once every page before it has been answered.
MayIssue(p) ==
  /\ outstanding = {}
  /\ \A q \in 1..(p - 1) : pageResult[q] # None

\* The array Effect.all succeeds with: the responses at their pages' indices.
Results == [p \in 1..Len(pageResult) |-> pageResult[p][1]]

FetchInit ==
  /\ fpc = "idle"
  /\ wantedN \in WantedNs
  /\ avail \in Avails
  /\ foptions \in FetchOptions
  /\ issued = <<>>
  /\ outstanding = {}
  /\ pageResult = <<>>
  /\ failedPages = {}
  /\ response = None
  /\ issuesFile = NoFile

FetchOff ==
  /\ fpc = "off"
  /\ wantedN = 0
  /\ avail = 0
  /\ foptions = [includeBom |-> FALSE, newline |-> Undefined, headers |-> Undefined]
  /\ issued = <<>>
  /\ outstanding = {}
  /\ pageResult = <<>>
  /\ failedPages = {}
  /\ response = None
  /\ issuesFile = NoFile

\* Effect.runPromise(writeIssuesCsvFile(token, args, path, options)): getIssues
\* builds its page effects and the run begins.
CallWriteIssuesCsvFile ==
  /\ fpc = "idle"
  /\ fpc' = "fetching"
  /\ issued' = [p \in 1..Pages(wantedN) |-> 0]
  /\ pageResult' = [p \in 1..Pages(wantedN) |-> None]
  /\ UNCHANGED <<wantedN, avail, foptions, outstanding, failedPages, response, issuesFile>>
  /\ UNCHANGED <<tvars, cvars>>

\* fetchPage(p) runs: the request for page p is sent.
IssuePage(p) ==
  /\ fpc = "fetching"
  /\ issued[p] = 0
  /\ MayIssue(p)
  /\ issued' = [issued EXCEPT ![p] = @ + 1]
  /\ outstanding' = outstanding \cup {p}
  /\ UNCHANGED <<fpc, wantedN, avail, foptions, pageResult, failedPages, response, issuesFile>>
  /\ UNCHANGED <<tvars, cvars>>

\* Page p is answered with status 200 and its JSON.
PageOk(p) ==
  /\ fpc = "fetching"
  /\ p \in outstanding
  /\ pageResult' = [pageResult EXCEPT ![p] = Some(ApiPage(p, avail))]
  /\ outstanding' = outstanding \ {p}
  /\ UNCHANGED <<fpc, wantedN, avail, foptions, issued, failedPages, response, issuesFile>>
  /\ UNCHANGED <<tvars, cvars>>

\* A failed page taken as an empty page: the call goes on with the others.
PageFailSkipsPage(p) ==
  /\ fpc = "fetching"
  /\ p \in outstanding
  /\ failedPages' = failedPages \cup {p}
  /\ outstanding' = outstanding \ {p}
  /\ pageResult' = [pageResult EXCEPT ![p] =
                      Some([total_count |-> 0, incomplete_results |-> TRUE, items |-> <<>>])]
  /\ UNCHANGED <<fpc, wantedN, avail, foptions, issued, response, issuesFile>>
  /\ UNCHANGED <<tvars, cvars>>

\* Page p is answered with another status, or the transport fails: fetchPage
\* fails with an Error, and with it Effect.all and the whole call.
PageFail(p) ==
  /\ fpc = "fetching"
  /\ p \in outstanding
  /\ failedPages' = failedPages \cup {p}
  /\ outstanding' = outstanding \ {p}
  /\ fpc' = "failed"
  /\ UNCHANGED <<wantedN, avail, foptions, issued, pageResult, response, issuesFile>>
  /\ UNCHANGED <<tvars, cvars>>

\* Effect.all has every page's response: the callback of Effect.map builds the
\* IssueResponse (with no page at all, destructuring results[0] throws), then
\* getIssuesCsvString serializes it and writeFileEff is started.
Aggregate ==
  /\ fpc = "fetching"
  /\ \A p \in 1..Len(pageResult) : pageResult[p] # None
  /\ IF Len(pageResult) = 0
     THEN fpc' = "defect" /\ UNCHANGED response
     ELSE fpc' = "writing" /\ response' = Some(Aggregated(Results, wantedN))
  /\ UNCHANGED <<wantedN, avail, foptions, issued, outstanding, pageResult, failedPages,
                 issuesFile>>
  /\ UNCHANGED <<tvars, cvars>>

\* writeFileEff(filePath, csv) succeeds.
WriteIssues ==
  /\ fpc = "writing"
  /\ issuesFile' = rowsToCsv(response[1].items, foptions)
  /\ fpc' = "written"
  /\ UNCHANGED <<wantedN, avail, foptions, issued, outstanding, pageResult, failedPages,
                 response>>
  /\ UNCHANGED <<tvars, cvars>>

\* writeFileEff(filePath, csv) fails with an Error.
WriteIssuesFails ==
  /\ fpc = "writing"
  /\ fpc' = "failed"
  /\ UNCHANGED <<wantedN, avail, foptions, issued, outstanding, pageResult, failedPages,
                 response, issuesFile>>
  /\ UNCHANGED <<tvars, cvars>>

NextFetch ==
  \/ CallWriteIssuesCsvFile
  \/ \E p \in 1..Len(issued) : IssuePage(p)
  \/ \E p \in 1..Len(issued) : PageOk(p)
  \/ \E p \in 1..Len(issued) : PageFail(p)
  \/ Aggregate
  \/ WriteIssues
  \/ WriteIssuesFails

\* ------------------------------------------------------ serializer calls
\* The field values tried: empty, plain, and ones that must be quoted.
CsvVals == { <<>>, <<"a">>, <<Comma, Quote>>, <<Space, "a", LF>> }

\* The IssueRows tried (soupId and projectId are the same on every row).
IssueRowsIn ==
  { << <<"soupId", SoupId>>, <<"projectId", ProjectId>>, <<"title", t>>, <<"body", b>> >> :
      t \in CsvVals, b \in CsvVals }

\* The options of rowsToCsv tried.
RowsToCsvOptions ==
  [includeBom : BOOLEAN,
   newline : {Undefined, LFText},
   headers : {Undefined, <<"soupId", "projectId", "title", "body">>, <<"title", "body">>,
              <<"body", "title", "projectId", "soupId">>}]

\* The rows given to toCsv: objects with one, two or four keys.
ObjectsIn ==
  { << <<"title", t>> >> : t \in CsvVals }
  \cup { << <<"body", b>>, <<"title", t>> >> : t \in CsvVals, b \in CsvVals }
  \cup { << <<"title", t>>, <<"body", <<"a">> >>, <<"titleJa", j>>, <<"bodyJa", <<>> >> >> :
           t \in CsvVals, j \in CsvVals }

\* The header lists given to toCsv.
HeadersIn == { <<"title", "body", "titleJa", "bodyJa">>, <<"body", "title">> }

RowLists(S) == UNION { [1..n -> S] : n \in 0..MaxCsvRows }

CsvInit == csvCall = None /\ csvText = None

\* rowsToCsv(rs, o) is called.
CallRowsToCsv(rs, o) ==
  /\ csvCall = None
  /\ csvCall' = Some([fn |-> "rowsToCsv", rows |-> rs, headers |-> o.headers,
                      includeBom |-> o.includeBom, newline |-> o.newline])
  /\ csvText' = Some(rowsToCsv(rs, o))
  /\ UNCHANGED <<tvars, fvars>>

\* toCsv(rs, hdrs, opt) is called.
CallToCsv(rs, hdrs, opt) ==
  /\ csvCall = None
  /\ csvCall' = Some([fn |-> "toCsv", rows |-> rs, headers |-> hdrs,
                      includeBom |-> opt.includeBom, newline |-> opt.newline])
  /\ csvText' = Some(toCsv(rs, hdrs, opt))
  /\ UNCHANGED <<tvars, fvars>>

NextCsv ==
  \/ \E rs \in RowLists(IssueRowsIn), o \in RowsToCsvOptions : CallRowsToCsv(rs, o)
  \/ \E rs \in RowLists(ObjectsIn), hdrs \in HeadersIn, opt \in OutputOptions :
       CallToCsv(rs, hdrs, opt)

\* -------------------------------------------------------------- specifications
CsvOff == csvCall = None /\ csvText = None

\* The translate CLI, from its start to its exit.
InitTranslate == TranslateInit /\ FetchOff /\ CsvOff
SpecTranslate == InitTranslate /\ [][NextTranslate]_vars

\* One run of writeIssuesCsvFile.
InitFetch == FetchInit /\ TranslateOff /\ CsvOff
SpecFetch == InitFetch /\ [][NextFetch]_vars

\* One call of a serializer.
InitCsv == CsvInit /\ TranslateOff /\ FetchOff
SpecCsv == InitCsv /\ [][NextCsv]_vars

\* ---------------------------------------------------------------- claims
\* An RFC 4180 reader, used to state what a serializer's text says. In such a
\* text a character stands outside every quoted field exactly when an even
\* number of quotes precedes it (a doubled quote counts twice).
QuotesUpTo(s, i) == Cardinality({j \in 1..i : s[j] = Quote})
OutsideQuotes(s, i) == QuotesUpTo(s, i - 1) % 2 = 0

\* The k-th smallest member of a set of positions.
NthOf(S, k) == CHOOSE i \in S : Cardinality({j \in S : j <= i}) = k

\* The pieces of s between the positions seps, in order.
SplitAt(s, seps) ==
  LET n == Cardinality(seps)
      start(k) == IF k = 1 THEN 1 ELSE NthOf(seps, k - 1) + 1
      stop(k) == IF k = n + 1 THEN Len(s) ELSE NthOf(seps, k) - 1
  IN [k \in 1..(n + 1) |-> SubSeq(s, start(k), stop(k))]

\* The value of a field as written: a quoted field loses its enclosing quotes
\* and the second quote of each doubled one.
FieldValue(f) ==
  IF f # <<>> /\ Head(f) = Quote
  THEN LET t == SubSeq(f, 2, Len(f) - 1)
           kept == {i \in 1..Len(t) : t[i] # Quote \/ QuotesUpTo(t, i) % 2 = 1}
       IN [k \in 1..Cardinality(kept) |-> t[NthOf(kept, k)]]
  ELSE f

\* The fields of one record (the carriage return of a CRLF ending dropped).
RecordFields(rec) ==
  LET r == IF rec # <<>> /\ rec[Len(rec)] = CR /\ OutsideQuotes(rec, Len(rec))
           THEN SubSeq(rec, 1, Len(rec) - 1) ELSE rec
      raw == SplitAt(r, {i \in 1..Len(r) : r[i] = Comma /\ OutsideQuotes(r, i)})
  IN [k \in 1..Len(raw) |-> FieldValue(raw[k])]

\* The records of a CSV text, its byte-order mark dropped, each a sequence of
\* field values.
CsvRecords(text) ==
  LET t == IF text # <<>> /\ Head(text) = BOM THEN Tail(text) ELSE text
      recs == SplitAt(t, {i \in 1..Len(t) : t[i] = LF /\ OutsideQuotes(t, i)})
  IN [k \in 1..Len(recs) |-> RecordFields(recs[k])]

\* The header list a serializer call writes.
CallHeaders(c) ==
  IF c.fn = "rowsToCsv"
  THEN Coalesce(c.headers, <<"soupId", "projectId", "title", "body">>)
  ELSE c.headers

\* The fields the i-th data line of a call must hold: for each header name in
\* turn the row's value for it, the empty text where the row has no such key.
FieldsByHeader(c, i) ==
  [k \in 1..Len(CallHeaders(c)) |-> Coalesce(Get(c.rows[i], CallHeaders(c)[k]), <<>>)]

\* The data lines of a call's text are its rows by header.
LinesFollowHeaders(c, text) ==
  LET recs == CsvRecords(text)
  IN /\ Len(c.rows) > 0 => Len(recs) = Len(c.rows) + 1
     /\ \A i \in 1..Len(c.rows) : recs[i + 1] = FieldsByHeader(c, i)

\* C8: in both serializers (rowsToCsv for every headers option, and toCsv) every
\* data line holds exactly one field per header column, the k-th field being the
\* row's value for the k-th header name, empty where the row has no such key.
C8_DataLinesFollowHeaders ==
  csvCall # None => LinesFollowHeaders(csvCall[1], csvText[1])

\* The part of C8 that is about toCsv alone.
C8_ToCsvLinesFollowHeaders ==
  (csvCall # None /\ csvCall[1].fn = "toCsv") => LinesFollowHeaders(csvCall[1], csvText[1])

\* The part of C8 that is about rowsToCsv when no headers option is given.
C8_RowsToCsvDefaultHeaders ==
  (csvCall # None /\ csvCall[1].fn = "rowsToCsv" /\ csvCall[1].headers = Undefined)
    => LinesFollowHeaders(csvCall[1], csvText[1])

\* ------------------------------------------------- claims: translate pipeline
\* C1, as stated: in every reachable state the number of rows whose completion
\* request is issued and not settled is at most the configured concurrency.
C1_OutstandingAtMostConcurrency == Cardinality(Outstanding) <= concurrency

\* C1, amended: the number of rows whose completion request is issued and not
\* settled is at most concurrency when concurrency is 2 or more, and at most 1
\* otherwise (0 and 1 both run the rows one at a time).
C1_OutstandingAtMostGate ==
  Cardinality(Outstanding) <= (IF concurrency >= 2 THEN concurrency ELSE 1)

\* C1's case: the gate is full while a row is still waiting to be started.
C1_GateFullRowWaiting ==
  /\ pc = "forEach"
  /\ concurrency >= 2
  /\ Cardinality(InFlight) = concurrency
  /\ next <= Len(rows)

\* The translations a row is due: none asked for when the row has neither title
\* nor body, else what the completion of its own title and body parses to.
OwnTranslation(r) ==
  IF RowTitle(r) = <<>> /\ RowBody(r) = <<>>
  THEN [titleJa |-> <<>>, bodyJa |-> <<>>]
  ELSE ParseCompletion(CompletionText(RowTitle(r), RowBody(r)))

\* C2: when every row succeeds, the i-th row written to the output CSV is the
\* i-th input row with its own titleJa/bodyJa merged in, whatever the order in
\* which the completion requests finished.
C2_OutputKeepsInputOrder ==
  outFile # NoFile =>
    LET recs == CsvRecords(outFile)
    IN /\ Len(rows) > 0 => Len(recs) = Len(rows) + 1
       /\ \A i \in 1..Len(rows) :
            recs[i + 1] = [k \in 1..Len(headers) |->
                             Coalesce(Get(Merge(rows[i], OwnTranslation(rows[i])), headers[k]), <<>>)]

\* C2's case: the file is written although a later row's request finished
\* before that of an earlier, different row.
C2_CompletedOutOfOrder ==
  /\ outFile # NoFile
  /\ \E a, b \in 1..Len(settleLog) :
       /\ a < b
       /\ settleLog[a] > settleLog[b]
       /\ requests[settleLog[a]] = 1
       /\ requests[settleLog[b]] = 1
       /\ rows[settleLog[a]] # rows[settleLog[b]]

\* C3: if the completion call of any row fails, the batch fails: the output file
\* is not written, neither in full nor with the rows that succeeded, and the
\* process ends with exit code 1.
C3_RowFailureFailsBatch ==
  failedRows # {} => outFile = NoFile /\ pc = "exited" /\ exitCode = <<1>>

\* C3's case: a row fails after another row's completion had succeeded.
C3_FailureAfterSuccess ==
  /\ failedRows # {}
  /\ \E i \in 1..Len(rows) : status[i] = "done" /\ requests[i] = 1

NoRequestIssued == \A i \in 1..Len(rows) : requests[i] = 0

\* C7, as stated: the CLI ends with 0 exactly when the output file was written,
\* 2 exactly when the API key is absent, 3 exactly when the input file is not
\* found, 1 exactly when processing fails with an uncaught error; no completion
\* request is issued and no output file written on the exits with 2 or 3.
C7_ExitCodesExactly ==
  pc = "exited" =>
    /\ exitCode = <<0>> <=> outFile # NoFile
    /\ exitCode = <<2>> <=> ~env.apiKey
    /\ exitCode = <<3>> <=> ~env.inputExists
    /\ exitCode = <<1>> <=> uncaught
    /\ exitCode \in {<<2>>, <<3>>} => NoRequestIssued /\ outFile = NoFile

\* C7, amended: the CLI ends with 0 exactly when help was asked for or the output
\* file was written; otherwise (no help asked for) with 1 exactly when --in or
\* --out is missing or processing fails with an uncaught error, with 2 exactly
\* when both paths are given and the API key is absent, with 3 exactly when both
\* paths and the key are given and the input file is not found; no completion
\* request is issued and no output file written on the exits with 2 or 3.
C7_ExitCodesByStartupOrder ==
  /\ pc # "exited" => exitCode = NotExited
  /\ pc = "exited" =>
       /\ exitCode \in {<<0>>, <<1>>, <<2>>, <<3>>}
       /\ exitCode = <<0>> <=> (env.help \/ outFile # NoFile)
       /\ exitCode = <<1>> <=> (~env.help /\ (~env.inout \/ uncaught))
       /\ exitCode = <<2>> <=> (~env.help /\ env.inout /\ ~env.apiKey)
       /\ exitCode = <<3>> <=> (~env.help /\ env.inout /\ env.apiKey /\ ~env.inputExists)
       /\ exitCode \in {<<2>>, <<3>>} => NoRequestIssued /\ outFile = NoFile

\* C7's case: the CLI ended with 2 although the input file is also missing.
C7_ExitedForMissingKey ==
  pc = "exited" /\ exitCode = <<2>> /\ ~env.inputExists

\* The title and body of a row as the claim words them: the column, and the
\* fallback column where the row has no such column.
ClaimTitle(r) ==
  IF "title" \in KeySet(r) THEN Get(r, "title")
  ELSE IF "summary" \in KeySet(r) THEN Get(r, "summary") ELSE <<>>
ClaimBody(r) ==
  IF "body" \in KeySet(r) THEN Get(r, "body")
  ELSE IF "first_comment" \in KeySet(r) THEN Get(r, "first_comment") ELSE <<>>
ClaimEmpty(r) == ClaimTitle(r) = <<>> /\ ClaimBody(r) = <<>>

RECURSIVE SumSeq(_)
SumSeq(ns) == IF ns = <<>> THEN 0 ELSE Head(ns) + SumSeq(Tail(ns))

ClaimPages(w) ==
  CHOOSE n \in 0..10 :
    /\ n * 100 >= Min(w, 1000)
    /\ \A m \in 0..(n - 1) : m * 100 < Min(w, 1000)

\* The call is over: getIssues returned or failed.
CallOver == fpc \in {"writing", "written", "failed", "defect"}

\* C4: for every wantedN >= 1 a getIssues call issues exactly
\* pages = ceil(min(wantedN, 1000) / 100) page requests, one for each page
\* number 1..pages.
C4_IssuesEveryPageOnce ==
  (CallOver /\ wantedN >= 1) =>
    /\ Len(issued) = ClaimPages(wantedN)
    /\ \A p \in 1..ClaimPages(wantedN) : issued[p] = 1

\* The part of C4 that holds: a call whose pages all succeed issued one request
\* for each page 1..pages, and no call issues a request for any other page or
\* two for one page.
C4_SuccessfulCallIssuesEveryPageOnce ==
  /\ fpc # "off" /\ fpc # "idle" =>
       /\ Len(issued) = ClaimPages(wantedN)
       /\ \A p \in 1..Len(issued) : issued[p] <= 1
  /\ (CallOver /\ failedPages = {} /\ wantedN >= 1) =>
       \A p \in 1..ClaimPages(wantedN) : issued[p] = 1

\* The items the claim expects: the pages' items in page order, cut to wantedN.
ClaimItems ==
  Map(Slice0(Concat([p \in 1..ClaimPages(wantedN) |-> ApiPage(p, avail).items]), wantedN),
      ToIssueRow)

\* C5: for every wantedN >= 0, whenever all page requests of a call succeed the
\* call returns an IssueResponse whose items are the first wantedN elements (or
\* all, if fewer) of the pages' items in page-number order, so that
\* items.length <= wantedN.
C5_ReturnsFirstWantedN ==
  (CallOver /\ failedPages = {}) =>
    /\ response # None
    /\ response[1].items = ClaimItems
    /\ Len(response[1].items) <= wantedN

\* The part of C5 that holds: the same, for every wantedN >= 1.
C5_ReturnsFirstWantedNFromOne ==
  (CallOver /\ failedPages = {} /\ wantedN >= 1) =>
    /\ response # None
    /\ response[1].items = ClaimItems
    /\ Len(response[1].items) <= wantedN

\* C6: if any page request returns a non-200 status or fails in transport, the
\* call fails with an Error and returns no IssueResponse, no request is retried
\* and writeIssuesCsvFile writes no file.
C6_PageFailureFailsCall ==
  /\ failedPages # {} => fpc = "failed" /\ response = None /\ issuesFile = NoFile
  /\ \A p \in 1..Len(issued) : issued[p] <= 1

\* C6's case: a page fails after an earlier page had been answered.
C6_FailureAfterAnsweredPage ==
  /\ failedPages # {}
  /\ \E q \in 1..Len(pageResult) : pageResult[q] # None

\* C10: every page request of a call is issued without waiting for the response
\* of any other page: once any page has been answered, every page's request
\* has been issued.
C10_IssuedWithoutWaiting ==
  \A p, q \in 1..Len(issued) : pageResult[q] # None => issued[p] >= 1

\* What the code does instead: at most one page request is outstanding.
AtMostOnePageOutstanding == Cardinality(outstanding) <= 1

====
